---- MODULE Spec2Model ----
(***************************************************************************)
(* A model of the dmpy device-mapper bindings (dmpymodule.c): the DmTask   *)
(* state-flag gating and the DmStats region cache with its sequence        *)
(* numbers and reference counts.  The native device-mapper library is an   *)
(* external collaborator: each native call is a nondeterministic outcome.  *)
(***************************************************************************)
EXTENDS Integers, Sequences, FiniteSets, TLC

(***************************************************************************)
(* DmTask: flags.  A uint32_t flag word is modelled as the set of its bit  *)
(* positions, `&` as intersection and `|` as union.                        *)
(***************************************************************************)
DMT_DID_IOCTL == {0}

DMT_DID_ERROR == {1}

DMT_HAVE_INFO == {4}

DMT_HAVE_NAME == {5}

DMT_HAVE_UUID == {6}

DMT_HAVE_DEPS == {7}

DMT_HAVE_NAME_LIST == {8}

DMT_HAVE_TIMESTAMP == {9}

DMT_HAVE_MESSAGE == {10}

DMT_HAVE_TABLE == {11}

DMT_HAVE_STATUS == {12}

DMT_HAVE_TARGET_VERSIONS == {13}

DMT_HAVE_IDENTITY == DMT_HAVE_NAME \cup DMT_HAVE_UUID

\* (uint32_t) -1, the flag argument of the accessors that only need an ioctl
FLAG_ANY == 0 .. 31

\* every data flag bit
DataFlags == 4 .. 13

\* DM_DEVICE_* operation kinds, in enum order (CREATE = 0 .. SET_GEOMETRY = 18)
TaskTypes == 0 .. 18

DM_DEVICE_INFO == 6

DM_DEVICE_LIST == 13

\* entry k + 1 is the entry of operation kind k
_DmTask_task_type_flags ==
    << DMT_HAVE_IDENTITY,                           \* CREATE
       DMT_HAVE_IDENTITY,                           \* RELOAD
       DMT_HAVE_IDENTITY,                           \* REMOVE
       {},                                          \* REMOVE_ALL
       DMT_HAVE_IDENTITY,                           \* SUSPEND
       DMT_HAVE_IDENTITY,                           \* RESUME
       DMT_HAVE_IDENTITY \cup DMT_HAVE_INFO,        \* INFO
       DMT_HAVE_IDENTITY \cup DMT_HAVE_DEPS,        \* DEPS
       DMT_HAVE_IDENTITY,                           \* RENAME
       {},                                          \* VERSION
       DMT_HAVE_IDENTITY,                           \* STATUS
       DMT_HAVE_IDENTITY \cup DMT_HAVE_TABLE,       \* TABLE
       DMT_HAVE_IDENTITY,                           \* WAITEVENT
       DMT_HAVE_NAME_LIST,                          \* LIST
       DMT_HAVE_IDENTITY,                           \* CLEAR
       {},                                          \* MKNODES
       DMT_HAVE_TARGET_VERSIONS,                    \* LIST_VERSIONS
       DMT_HAVE_IDENTITY \cup DMT_HAVE_MESSAGE,     \* TARGET_MSG
       DMT_HAVE_IDENTITY >>                         \* SET_GEOMETRY

\* a lookup that reads the entry of INFO whatever the operation kind
TaskTypeFlags_info(type) == _DmTask_task_type_flags[DM_DEVICE_INFO + 1]

TaskTypeFlags(type) == _DmTask_task_type_flags[type + 1]

\* results of a DmTask call
E_REQUIRES_IOCTL == "TypeError: requires ioctl data"

E_NOT_PROVIDED == "TypeError: does not provide data"

E_TS_DISABLED == "TypeError: timestamps not enabled"

E_OSERROR == "OSError"

R_NONE == "None"

R_VALUE == "value"

R_TRUE == "True"

GATE_OK == "gate passed"

GatingErrors == {E_REQUIRES_IOCTL, E_NOT_PROVIDED, E_TS_DISABLED}

VARIABLES
    ob_task_type,   \* DmTaskObject.ob_task_type
    ob_flags,       \* DmTaskObject.ob_flags
    t_call,         \* the DmTask method called last
    t_result,       \* what that call returned or raised
    t_run_last,     \* outcome of the latest dm_task_run: "none", "ok", "fail"
    t_run_ok,       \* some dm_task_run of this task has succeeded
    t_run_failed,   \* some dm_task_run of this task has failed
    t_ts_set        \* dm_task_set_record_timestamp has succeeded

tvars == << ob_task_type, ob_flags, t_call, t_result, t_run_last, t_run_ok,
            t_run_failed, t_ts_set >>

VARIABLES
    ob_dms,         \* DmStatsObject.ob_dms: "alive" or "destroyed"
    ob_refcnt,      \* reference count of the DmStats object
    user_refs,      \* references to the DmStats object held by the caller
    ob_sequence,    \* DmStatsObject.ob_sequence
    ob_regions,     \* DmStatsObject.ob_regions, <<>> for NULL; a slot is 0
                    \* (NULL) or the weak reference to a DmStatsRegion
    tree,           \* the regions and areas held by the dm_stats handle
    regions,        \* the DmStatsRegion objects
    areas,          \* the DmStatsArea objects
    s_call,         \* the DmStats / DmStatsRegion operation called last
    s_arg,          \* its target and argument
    s_result,       \* what it returned or raised
    ops             \* state-changing calls made so far

svars == << ob_dms, ob_refcnt, user_refs, ob_sequence, ob_regions, tree,
            regions, areas, s_call, s_arg, s_result, ops >>

VARIABLES
    ob_cookie,      \* DmCookieObject.ob_cookie, a uint32_t, as the pair of
                    \* its high and low 16-bit halves
    ob_val_prefix,  \* DmCookieObject.ob_val_prefix
    ob_val_base,    \* DmCookieObject.ob_val_base
    ob_ready,       \* DmCookieObject.ob_ready: TRUE for Py_True
    c_call,         \* the DmCookie method called last
    c_arg,          \* its argument
    c_result,       \* what it returned or raised
    c_native        \* whether it called the native layer, and the answer

cvars == << ob_cookie, ob_val_prefix, ob_val_base, ob_ready, c_call, c_arg,
            c_result, c_native >>

VARIABLES
    ck_refcnt,      \* reference count of each DmCookie object, 0 once freed
    task_ob_cookie, \* DmTaskObject.ob_cookie: 0 for NULL, else the DmCookie
    task_alive,     \* DmTask_dealloc has not run
    r_call,         \* DmTask_set_cookie or DmTask_dealloc, the last called
    r_arg,          \* the DmCookie passed to it
    r_result,       \* what it returned or raised
    r_calls         \* calls of set_cookie made so far

rvars == << ck_refcnt, task_ob_cookie, task_alive, r_call, r_arg, r_result,
            r_calls >>

VARIABLES
    w_buf,          \* the records dm_task_get_names / dm_task_get_versions
                    \* point to, by their offset in the ioctl buffer
    w_null,         \* the name pointer of the first record tests as NULL
    w_call,         \* the decoding function called last
    w_out           \* what it returned or raised

wvars == << w_buf, w_null, w_call, w_out >>

vars == << tvars, svars, cvars, rvars, wvars >>

\* offsets of the buffer at which a record can start
MaxOffset == 3

Offsets == 0 .. MaxOffset

RecordNames == {"a", "b"}

\* the buffers the native layer hands out: every next-offset stays inside
Buffers ==
    {b \in [Offsets -> [name : RecordNames, next : Offsets]] :
        \A o \in Offsets : o + b[o].next <= MaxOffset}

NoOut == [type |-> "none", entries |-> << >>]

\* no buffer has been fetched and no decoding has run
NoWalk ==
    /\ w_buf = << >>
    /\ w_null = FALSE
    /\ w_call = "init"
    /\ w_out = NoOut

(***************************************************************************)
(* DmCookie                                                                *)
(***************************************************************************)
\* the 16-bit halves a DmCookie is constructed with
Halves == {0, 1, 65535}

\* arguments of set_prefix and set_base: an int
HalfArgs == {-1, 0, 1, 65535, 65536}

\* arguments of set_value: an int
ValueArgs == {-1, 0, 1}

NoNative == [called |-> FALSE, r |-> FALSE, ready |-> FALSE]

Native(r, ready) == [called |-> TRUE, r |-> r, ready |-> ready]

\* _dmpy_set_cookie_values: the base is the low half, the prefix the high
_dmpy_set_cookie_values(cookie) == [prefix |-> cookie[1], base |-> cookie[2]]

\* the members of DmCookie_members as Python reads them: T_SHORT reads the
\* 16 bits of ob_val_prefix / ob_val_base as a signed short, T_INT the 32
\* bits of ob_cookie as a signed int
T_SHORT(half) == IF half >= 32768 THEN half - 65536 ELSE half

T_INT(cookie) == T_SHORT(cookie[1]) * 65536 + cookie[2]

\* DmCookie_init, successful: the state after construction
DmCookie_init ==
    /\ ob_cookie \in Halves \X Halves
    /\ ob_val_prefix = _dmpy_set_cookie_values(ob_cookie).prefix
    /\ ob_val_base = _dmpy_set_cookie_values(ob_cookie).base
    /\ ob_ready = FALSE
    /\ c_call = "init"
    /\ c_arg = 0
    /\ c_result = R_NONE
    /\ c_native = NoNative

\* a DmCookie call that leaves every field of the cookie alone
CookieReturns(call, arg, result, native) ==
    /\ c_call' = call
    /\ c_arg' = arg
    /\ c_result' = result
    /\ c_native' = native
    /\ UNCHANGED << tvars, svars, rvars, wvars >>

\* a DmCookie call that stores a new ob_cookie
CookieStores(cookie) ==
    /\ ob_cookie' = cookie
    /\ ob_val_prefix' = _dmpy_set_cookie_values(cookie).prefix
    /\ ob_val_base' = _dmpy_set_cookie_values(cookie).base
    /\ UNCHANGED ob_ready

\* _dmpy_check_cookie_value: its unsigned argument never exceeds 0xffffffff,
\* so it returns 0
_dmpy_check_cookie_value(value) == 0

\* a range check that compares its argument as a signed int
_dmpy_check_base_or_prefix_value_signed(value) ==
    IF value > 65535 THEN -1 ELSE 0

\* _dmpy_check_base_or_prefix_value on (unsigned) value: a negative int
\* converts to a value above 0xffff
_dmpy_check_base_or_prefix_value(value) ==
    IF value < 0 \/ value > 65535 THEN -1 ELSE 0

\* `if (!_dmpy_check_cookie_value(value)) return NULL;` returns NULL, with
\* no exception set, whenever the check returns 0
DmCookie_set_value ==
    \E value \in ValueArgs :
        IF _dmpy_check_cookie_value(value) = 0
        THEN /\ CookieReturns("DmCookie_set_value", value, "SystemError",
                              NoNative)
             /\ UNCHANGED << ob_cookie, ob_val_prefix, ob_val_base, ob_ready >>
        ELSE /\ CookieReturns("DmCookie_set_value", value, R_TRUE, NoNative)
             /\ CookieStores(<< 0, value >>)

DmCookie_set_prefix ==
    \E prefix \in HalfArgs :
        IF _dmpy_check_base_or_prefix_value(prefix) # 0
        THEN /\ CookieReturns("DmCookie_set_prefix", prefix, "ValueError",
                              NoNative)
             /\ UNCHANGED << ob_cookie, ob_val_prefix, ob_val_base, ob_ready >>
        ELSE /\ CookieReturns("DmCookie_set_prefix", prefix, R_TRUE, NoNative)
             /\ CookieStores(<< prefix, ob_cookie[2] >>)

DmCookie_set_base ==
    \E base \in HalfArgs :
        IF _dmpy_check_base_or_prefix_value(base) # 0
        THEN /\ CookieReturns("DmCookie_set_base", base, "ValueError",
                              NoNative)
             /\ UNCHANGED << ob_cookie, ob_val_prefix, ob_val_base, ob_ready >>
        ELSE /\ CookieReturns("DmCookie_set_base", base, R_TRUE, NoNative)
             /\ CookieStores(<< ob_cookie[1], base >>)

\* a complete() that raises when dm_udev_complete fails
DmCookie_udev_complete_raises(r) == IF r THEN R_TRUE ELSE E_OSERROR

\* ret = (r) ? Py_True : Py_False
DmCookie_udev_complete_ret(r) == IF r THEN R_TRUE ELSE "False"

DmCookie_udev_complete ==
    \E r \in BOOLEAN :
        /\ CookieReturns("DmCookie_udev_complete", 0,
                         DmCookie_udev_complete_ret(r), Native(r, FALSE))
        /\ UNCHANGED << ob_cookie, ob_val_prefix, ob_val_base, ob_ready >>

\* a wait that never refuses a completed cookie
_DmCookie_completed_never(ready) == FALSE

\* the test `self->ob_ready == Py_True`
_DmCookie_completed(ready) == ready

\* a wait that marks the cookie ready whenever the native call succeeded
_DmCookie_ready_on_success(r, ready) == r

\* the test `r && ready`
_DmCookie_ready(r, ready) == r /\ ready

\* udev_wait(immediate): dm_udev_wait reports ready = r;
\* dm_udev_wait_immediate reports ready by itself
_DmCookie_udev_wait ==
    \E immediate \in {0, 1}, r \in BOOLEAN, ready \in BOOLEAN :
        /\ immediate = 0 => ready = r
        /\ IF _DmCookie_completed(ob_ready)
           THEN /\ r /\ ready
                /\ CookieReturns("DmCookie_udev_wait", immediate, "ValueError",
                                 NoNative)
                /\ UNCHANGED << ob_cookie, ob_val_prefix, ob_val_base,
                                ob_ready >>
           ELSE /\ CookieReturns("DmCookie_udev_wait", immediate,
                                 IF r THEN R_TRUE ELSE "False",
                                 Native(r, ready))
                /\ ob_ready' = (ob_ready \/ _DmCookie_ready(r, ready))
                /\ UNCHANGED << ob_cookie, ob_val_prefix, ob_val_base >>

(***************************************************************************)
(* DmTask.set_cookie: the reference a DmTask takes on a DmCookie.  The     *)
(* caller keeps one reference of its own on every DmCookie.                *)
(***************************************************************************)
\* DmCookie objects the caller holds
MaxCookies == 2

\* calls of set_cookie in one behaviour
MaxCalls == 4

CookieIds == 1 .. MaxCookies

\* a DmTask after DmTask_init (ob_cookie = NULL) beside the caller's cookies
DmTask_init_cookie ==
    /\ ck_refcnt = [c \in CookieIds |-> 1]
    /\ task_ob_cookie = 0
    /\ task_alive = TRUE
    /\ r_call = "init"
    /\ r_arg = 0
    /\ r_result = R_NONE
    /\ r_calls = 0

\* Py_INCREF(cookie), self->ob_cookie = cookie, and on native failure
\* Py_XDECREF(cookie) at the fail label, ob_cookie staying set
DmTask_set_cookie ==
    \E cookie \in CookieIds, native_ok \in BOOLEAN :
        /\ task_alive
        /\ ck_refcnt[cookie] > 0
        /\ r_calls < MaxCalls
        /\ r_calls' = r_calls + 1
        /\ task_ob_cookie' = cookie
        /\ ck_refcnt' = IF native_ok
                        THEN [ck_refcnt EXCEPT ![cookie] = @ + 1]
                        ELSE [ck_refcnt EXCEPT ![cookie] = (@ + 1) - 1]
        /\ r_call' = "DmTask_set_cookie"
        /\ r_arg' = cookie
        /\ r_result' = IF native_ok THEN R_TRUE ELSE E_OSERROR
        /\ UNCHANGED task_alive
        /\ UNCHANGED << tvars, svars, cvars, wvars >>

\* DmTask_dealloc: Py_XDECREF(self->ob_cookie)
DmTask_dealloc ==
    /\ task_alive
    /\ task_alive' = FALSE
    /\ ck_refcnt' = IF task_ob_cookie = 0 THEN ck_refcnt
                    ELSE [ck_refcnt EXCEPT ![task_ob_cookie] = @ - 1]
    /\ r_call' = "DmTask_dealloc"
    /\ r_arg' = task_ob_cookie
    /\ r_result' = R_NONE
    /\ UNCHANGED << task_ob_cookie, r_calls >>
    /\ UNCHANGED << tvars, svars, cvars, wvars >>

\* the gate without its first test: a flag test alone
_DmTask_check_data_flags_noioctl(flags, flag) ==
    IF flags \cap flag = {} THEN E_NOT_PROVIDED ELSE GATE_OK

\* the gate without its second test: an ioctl test alone
_DmTask_check_data_flags_noflag(flags, flag) ==
    IF flags \cap DMT_DID_IOCTL = {} THEN E_REQUIRES_IOCTL ELSE GATE_OK

_DmTask_check_data_flags(flags, flag) ==
    IF flags \cap DMT_DID_IOCTL = {}
    THEN E_REQUIRES_IOCTL
    ELSE IF flags \cap flag = {} THEN E_NOT_PROVIDED ELSE GATE_OK

\* DmTask_init, successful: the state after construction
DmTask_init ==
    /\ ob_task_type \in TaskTypes
    /\ ob_flags = {}
    /\ t_call = "init"
    /\ t_result = R_NONE
    /\ t_run_last = "none"
    /\ t_run_ok = FALSE
    /\ t_run_failed = FALSE
    /\ t_ts_set = FALSE

\* a call that leaves every field of the task alone
TaskReturns(call, result) ==
    /\ t_call' = call
    /\ t_result' = result
    /\ UNCHANGED << ob_task_type, ob_flags, t_run_last, t_run_ok,
                    t_run_failed, t_ts_set >>
    /\ UNCHANGED << svars, cvars, rvars, wvars >>

\* run() that also sets the data flags when dm_task_run fails
DmTask_run_flags_on_error(flags, type, native_ok) ==
    (flags \cup DMT_DID_IOCTL) \cup
        (IF native_ok THEN TaskTypeFlags(type)
         ELSE DMT_DID_ERROR \cup TaskTypeFlags(type))

\* run() that marks every data category valid, whatever the operation kind
DmTask_run_all_flags(flags, type, native_ok) ==
    (flags \cup DMT_DID_IOCTL) \cup
        (IF native_ok THEN DataFlags \ DMT_HAVE_TIMESTAMP ELSE DMT_DID_ERROR)

\* run() that forgets the flag table
DmTask_run_no_table(flags, type, native_ok) ==
    (flags \cup DMT_DID_IOCTL) \cup (IF native_ok THEN {} ELSE DMT_DID_ERROR)

\* run() that records the attempt only once dm_task_run has succeeded
DmTask_run_flags_late_ioctl(flags, type, native_ok) ==
    IF native_ok
    THEN (flags \cup DMT_DID_IOCTL) \cup TaskTypeFlags(type)
    ELSE flags \cup DMT_DID_ERROR

\* run() that assigns the flags of this call instead of ORing them in
DmTask_run_flags_reset(flags, type, native_ok) ==
    IF native_ok
    THEN DMT_DID_IOCTL \cup TaskTypeFlags(type)
    ELSE DMT_DID_IOCTL \cup DMT_DID_ERROR

\* ob_flags after DmTask_run, native_ok being the result of dm_task_run
DmTask_run_flags(flags, type, native_ok) ==
    IF native_ok
    THEN (flags \cup DMT_DID_IOCTL) \cup TaskTypeFlags(type)
    ELSE (flags \cup DMT_DID_IOCTL) \cup DMT_DID_ERROR

DmTask_run ==
    \E native_ok \in BOOLEAN :
        /\ ob_flags' = DmTask_run_flags(ob_flags, ob_task_type, native_ok)
        /\ t_call' = "run"
        /\ t_result' = IF native_ok THEN R_NONE ELSE E_OSERROR
        /\ t_run_last' = IF native_ok THEN "ok" ELSE "fail"
        /\ t_run_ok' = (t_run_ok \/ native_ok)
        /\ t_run_failed' = (t_run_failed \/ ~native_ok)
        /\ UNCHANGED << ob_task_type, t_ts_set >>
        /\ UNCHANGED << svars, cvars, rvars, wvars >>

DmTask_set_name ==
    \E native_ok \in BOOLEAN :
        TaskReturns("set_name", IF native_ok THEN R_NONE ELSE E_OSERROR)

DmTask_set_uuid ==
    \E native_ok \in BOOLEAN :
        TaskReturns("set_uuid", IF native_ok THEN R_NONE ELSE E_OSERROR)

DmTask_set_record_timestamp ==
    \E native_ok \in BOOLEAN :
        /\ ob_flags' = IF native_ok THEN ob_flags \cup DMT_HAVE_TIMESTAMP
                       ELSE ob_flags
        /\ t_call' = "set_record_timestamp"
        /\ t_result' = IF native_ok THEN R_TRUE ELSE E_OSERROR
        /\ t_ts_set' = (t_ts_set \/ native_ok)
        /\ UNCHANGED << ob_task_type, t_run_last, t_run_ok, t_run_failed >>
        /\ UNCHANGED << svars, cvars, rvars, wvars >>

\* an accessor: the gate on `flag`, then one of the outcomes past the gate
GatedAccessor(call, flag, outcomes) ==
    LET gate == _DmTask_check_data_flags(ob_flags, flag)
    IN  IF gate # GATE_OK
        THEN TaskReturns(call, gate)
        ELSE \E out \in outcomes : TaskReturns(call, out)

DmTask_get_driver_version ==
    GatedAccessor("get_driver_version", FLAG_ANY, {R_VALUE, E_OSERROR})

DmTask_get_info ==
    GatedAccessor("get_info", DMT_HAVE_INFO, {R_VALUE, R_NONE})

DmTask_get_uuid ==
    GatedAccessor("get_uuid", DMT_HAVE_UUID, {R_VALUE})

DmTask_get_deps ==
    GatedAccessor("get_deps", DMT_HAVE_DEPS, {R_VALUE, E_OSERROR})

DmTask_get_versions ==
    GatedAccessor("get_versions", DMT_HAVE_TARGET_VERSIONS,
                  {R_VALUE, E_OSERROR})

DmTask_get_message_response ==
    GatedAccessor("get_message_response", DMT_HAVE_MESSAGE, {R_VALUE})

DmTask_get_name ==
    GatedAccessor("get_name", DMT_HAVE_NAME, {R_VALUE})

DmTask_get_names ==
    GatedAccessor("get_names", DMT_HAVE_NAME_LIST, {R_VALUE, R_NONE})

DmTask_get_ioctl_timestamp ==
    LET gate == _DmTask_check_data_flags(ob_flags, FLAG_ANY)
    IN  IF gate # GATE_OK
        THEN TaskReturns("get_ioctl_timestamp", gate)
        ELSE IF ob_flags \cap DMT_HAVE_TIMESTAMP = {}
        THEN TaskReturns("get_ioctl_timestamp", E_TS_DISABLED)
        ELSE \E out \in {R_VALUE, E_OSERROR} :
                 TaskReturns("get_ioctl_timestamp", out)

\* `ob_flags && DMT_DID_ERROR` is a logical and: true whenever ob_flags # 0,
\* which the gate has already established
DmTask_get_errno ==
    LET gate == _DmTask_check_data_flags(ob_flags, FLAG_ANY)
    IN  IF gate # GATE_OK
        THEN TaskReturns("get_errno", gate)
        ELSE IF ob_flags = {}
        THEN TaskReturns("get_errno", "NULL")
        ELSE TaskReturns("get_errno", R_VALUE)

\* the accessor of each data category
CategoryAccessor ==
    [c \in {4, 5, 6, 7, 8, 10, 13} |->
        CASE c = 4 -> "get_info"
          [] c = 5 -> "get_name"
          [] c = 6 -> "get_uuid"
          [] c = 7 -> "get_deps"
          [] c = 8 -> "get_names"
          [] c = 10 -> "get_message_response"
          [] c = 13 -> "get_versions"]

DataAccessors == {CategoryAccessor[c] : c \in DOMAIN CategoryAccessor}

AllAccessors ==
    DataAccessors \cup {"get_driver_version", "get_ioctl_timestamp", "get_errno"}


(***************************************************************************)
(* DmStats, DmStatsRegion, DmStatsArea                                     *)
(***************************************************************************)
\* region identifiers of the native tree are 0 .. MaxRegionId
MaxRegionId == 0

\* a region of the native tree has at most MaxAreas areas
MaxAreas == 1

\* calls that change a DmStats, a view or a reference count in one behaviour;
\* this bounds the views created, the references held and ob_sequence
MaxOps == 5

\* UINT64_MAX, written as the signed value of the same bit pattern
UINT64_MAX == -1

RegionIds == 0 .. MaxRegionId

\* a behaviour creates at most MaxOps views of each kind
RegionViewIds == 1 .. MaxOps

AreaViewIds == 1 .. MaxOps

\* the native tree: the number of areas of each region, 0 for an absent region
Trees == [RegionIds -> 0 .. MaxAreas]

EmptyTree == [r \in RegionIds |-> 0]

FreeRegion ==
    [state |-> "free", refs |-> 0, ob_sequence |-> 0, ob_region_id |-> 0,
     ob_areas |-> << >>, invalidated |-> FALSE, relisted |-> FALSE]

DeadRegion == [FreeRegion EXCEPT !.state = "dead"]

FreeArea == [state |-> "free", refs |-> 0, ob_area_id |-> 0, region |-> 0]

DeadArea == [FreeArea EXCEPT !.state = "dead"]

Result(type, val) == [type |-> type, val |-> val]

NoArg == [obj |-> 0, idx |-> 0]

Arg(obj, idx) == [obj |-> obj, idx |-> idx]

LiveRegions == {v \in RegionViewIds : regions[v].state = "live"}

LiveAreas == {a \in AreaViewIds : areas[a].state = "live"}

FreeRegionIds == {v \in RegionViewIds : regions[v].state = "free"}

FreeAreaIds == {a \in AreaViewIds : areas[a].state = "free"}

Min(S) == CHOOSE x \in S : \A y \in S : x <= y

Max(S) == CHOOSE x \in S : \A y \in S : x >= y

RECURSIVE SumAreas(_, _)
SumAreas(t, r) == IF r < 0 THEN 0 ELSE t[r] + SumAreas(t, r - 1)

\* the native introspection calls
dm_stats_get_nr_areas(t) == SumAreas(t, MaxRegionId)

\* a presence test that every region identifier passes
dm_stats_region_present_always(t, r) == r \in RegionIds

dm_stats_region_present(t, r) == r \in RegionIds /\ t[r] > 0

dm_stats_get_region_nr_areas(t, r) == IF r \in RegionIds THEN t[r] ELSE 0

\* a weak reference that outlives its referent
RegionReferent_stale(slot) == slot

\* PyWeakref_GetObject on a region cache slot: 0 stands for Py_None
RegionReferent(slot) == IF regions[slot].state = "live" THEN slot ELSE 0

AreaReferent(slot) == IF areas[slot].state = "live" THEN slot ELSE 0

ZeroSlots(n) == [k \in 1 .. n |-> 0]

\* DmStats_new followed by a successful DmStats_init
DmStats_init ==
    /\ ob_dms = "alive"
    /\ ob_refcnt = 1
    /\ user_refs = 1
    /\ ob_sequence = 0
    /\ ob_regions = << >>
    /\ tree = EmptyTree
    /\ regions = [v \in RegionViewIds |-> FreeRegion]
    /\ areas = [a \in AreaViewIds |-> FreeArea]
    /\ s_call = "init"
    /\ s_arg = NoArg
    /\ s_result = Result("None", 0)
    /\ ops = 0

\* a DmTask beside a DmStats nobody calls, and a DmStats beside one DmTask
InitTask ==
    /\ DmTask_init
    /\ DmStats_init
    /\ DmCookie_init
    /\ ob_cookie = << 0, 0 >>
    /\ DmTask_init_cookie
    /\ NoWalk

InitStats ==
    /\ DmTask_init
    /\ ob_task_type = DM_DEVICE_INFO
    /\ DmStats_init
    /\ DmCookie_init
    /\ ob_cookie = << 0, 0 >>
    /\ DmTask_init_cookie
    /\ NoWalk

\* the caller holds the DmStats object and can call its methods
StatsCallable == user_refs > 0 /\ ob_dms = "alive"

DmStats_dealloc ==
    /\ ob_dms' = "destroyed"
    /\ ob_regions' = << >>
    /\ ob_sequence' = UINT64_MAX
    /\ tree' = EmptyTree

\* Py_DECREF on the DmStats object
Py_DECREF_stats ==
    /\ ob_refcnt' = ob_refcnt - 1
    /\ IF ob_refcnt - 1 = 0
       THEN DmStats_dealloc
       ELSE UNCHANGED << ob_dms, ob_regions, ob_sequence, tree >>

\* a view constructor that takes no reference on its DmStats
NoIncref(refcnt) == refcnt

\* Py_INCREF(stats) of newDmStatsRegionObject and newDmStatsAreaObject
Py_INCREF_stats(refcnt) == refcnt + 1

_DmStatsRegion_set_area_cache(t, region_id) ==
    ZeroSlots(dm_stats_get_region_nr_areas(t, region_id))

\* a constructor that does not record the sequence number it is given
newDmStatsRegionObject_unsequenced(region_id, sequence) ==
    [state |-> "live", refs |-> 1, ob_sequence |-> 0,
     ob_region_id |-> region_id, ob_areas |-> << >>, invalidated |-> FALSE,
     relisted |-> FALSE]

newDmStatsRegionObject(region_id, sequence) ==
    [state |-> "live", refs |-> 1, ob_sequence |-> sequence,
     ob_region_id |-> region_id, ob_areas |-> << >>, invalidated |-> FALSE,
     relisted |-> FALSE]

newDmStatsAreaObject(area_id, region) ==
    [state |-> "live", refs |-> 1, ob_area_id |-> area_id, region |-> region]

\* a cache lookup that never finds a live referent
AlwaysMiss(slot) == FALSE

\* the cache-hit test of DmStats_get_item: the slot holds a weak reference
\* whose referent is still alive
RegionCacheHit(slot) == slot # 0 /\ RegionReferent(slot) # 0

\* a call that changes the DmStats, a view or a reference count
Step == ops < MaxOps /\ ops' = ops + 1

\* a call that changes none of them
NoStep == ops' = ops

StatsReturns(call, arg, result) ==
    /\ s_call' = call
    /\ s_arg' = arg
    /\ s_result' = result
    /\ UNCHANGED << tvars, cvars, rvars, wvars >>

DmStats_get_item ==
    \E i \in -1 .. MaxRegionId + 1 :
        /\ StatsCallable
        /\ IF i < 0 \/ i >= Len(ob_regions)
           THEN /\ StatsReturns("DmStats_get_item", Arg(0, i),
                                Result("IndexError", 0))
                /\ NoStep
                /\ UNCHANGED << ob_dms, ob_refcnt, user_refs, ob_sequence,
                                ob_regions, tree, regions, areas >>
           ELSE IF ~dm_stats_region_present(tree, i)
           THEN /\ StatsReturns("DmStats_get_item", Arg(0, i),
                                Result("None", 0))
                /\ NoStep
                /\ UNCHANGED << ob_dms, ob_refcnt, user_refs, ob_sequence,
                                ob_regions, tree, regions, areas >>
           ELSE IF RegionCacheHit(ob_regions[i + 1])
           THEN \* cache hit
                LET v == ob_regions[i + 1]
                IN  /\ Step
                    /\ regions' = [regions EXCEPT ![v].refs = @ + 1]
                    /\ StatsReturns("DmStats_get_item", Arg(0, i),
                                    Result("region", v))
                    /\ UNCHANGED << ob_dms, ob_refcnt, user_refs, ob_sequence,
                                    ob_regions, tree, areas >>
           ELSE \* cache miss, or cache hit but referent expired
                /\ Step
                /\ LET v == Min(FreeRegionIds)
                   IN  /\ regions' = [regions EXCEPT ![v] =
                              [newDmStatsRegionObject(i, ob_sequence)
                                 EXCEPT !.ob_areas =
                                     _DmStatsRegion_set_area_cache(tree, i)]]
                       /\ ob_regions' = [ob_regions EXCEPT ![i + 1] = v]
                       /\ ob_refcnt' = Py_INCREF_stats(ob_refcnt)
                       /\ StatsReturns("DmStats_get_item", Arg(0, i),
                                       Result("region", v))
                /\ UNCHANGED << ob_dms, user_refs, ob_sequence, tree, areas >>

\* DmStats_len
DmStats_len ==
    /\ StatsCallable
    /\ StatsReturns("DmStats_len", NoArg, Result("value", Len(ob_regions)))
    /\ NoStep
    /\ UNCHANGED << ob_dms, ob_refcnt, user_refs, ob_sequence, ob_regions,
                    tree, regions, areas >>

\* a method of DmStats that reads or writes the native handle only
StatsQuery(call, arg, result) ==
    /\ StatsCallable
    /\ StatsReturns(call, arg, result)
    /\ NoStep
    /\ UNCHANGED << ob_dms, ob_refcnt, user_refs, ob_sequence, ob_regions,
                    tree, regions, areas >>

DmStats_nr_regions ==
    StatsQuery("DmStats_nr_regions", NoArg,
               Result("value", Cardinality({r \in RegionIds : tree[r] > 0})))

DmStats_nr_areas ==
    StatsQuery("DmStats_nr_areas", NoArg,
               Result("value", dm_stats_get_nr_areas(tree)))

DmStats_region_present ==
    \E i \in -1 .. MaxRegionId + 1 :
        StatsQuery("DmStats_region_present", Arg(0, i),
                   Result("value",
                          IF dm_stats_region_present(tree, i) THEN 1 ELSE 0))

DmStats_region_nr_areas ==
    \E i \in -1 .. MaxRegionId + 1 :
        StatsQuery("DmStats_region_nr_areas", Arg(0, i),
                   Result("value",
                          IF dm_stats_get_nr_areas(tree) # 0
                          THEN dm_stats_get_region_nr_areas(tree, i)
                          ELSE 0))

DmStats_set_sampling_interval ==
    StatsQuery("DmStats_set_sampling_interval", NoArg, Result("True", 0))

DmStats_get_sampling_interval ==
    StatsQuery("DmStats_get_sampling_interval", NoArg, Result("value", 0))

\* program_id is NULL (None), empty or a string; the check of allow_empty
\* comes before dm_stats_set_program_id
DmStats_set_program_id ==
    \E program_id \in {"NULL", "", "id"}, allow_empty \in BOOLEAN,
       native_ok \in BOOLEAN :
        StatsQuery("DmStats_set_program_id", NoArg,
                   IF ~allow_empty /\ program_id \in {"NULL", ""}
                   THEN Result("ValueError", 0)
                   ELSE IF ~native_ok THEN Result("OSError", 0)
                   ELSE Result("True", 0))

\* every live region view has now seen a list / populate / bind call
Invalidate(rs) ==
    [v \in RegionViewIds |->
        IF rs[v].state = "live" THEN [rs[v] EXCEPT !.invalidated = TRUE]
        ELSE rs[v]]

\* every live region view has now seen a successful list / populate
Relisted(rs) ==
    [v \in RegionViewIds |->
        IF rs[v].state = "live" THEN [rs[v] EXCEPT !.relisted = TRUE]
        ELSE rs[v]]

\* the regions after _DmStats_clear_region_cache: the area cache of every
\* region still alive in the cache is dropped
_DmStats_clear_region_cache(rs, cache) ==
    [v \in RegionViewIds |->
        IF /\ \E k \in 1 .. Len(cache) : cache[k] = v
           /\ rs[v].state = "live"
        THEN [rs[v] EXCEPT !.ob_areas = << >>]
        ELSE rs[v]]

\* a list / populate that keeps the region cache when the native call fails
ob_regions_kept(cache) == cache

\* ob_regions and ob_regions_len after _DmStats_clear_region_cache
ob_regions_cleared(cache) == << >>

\* a _DmStats_set_region_cache without the test of dm_stats_get_nr_areas:
\* max_region starts at 0, so a tree with no region gets one slot
_DmStats_set_region_cache_unguarded(t) ==
    ZeroSlots(Max({0} \cup {r \in RegionIds : t[r] > 0}) + 1)

\* the region cache after _DmStats_set_region_cache on tree t
_DmStats_set_region_cache(t) ==
    IF dm_stats_get_nr_areas(t) # 0
    THEN ZeroSlots(Max({r \in RegionIds : t[r] > 0}) + 1)
    ELSE << >>

\* a list / populate that leaves the sequence number alone
SameSequence(seq) == seq

\* an increment that skips a number
NextSequence_skip(seq) == seq + 2

\* ob_sequence++
NextSequence(seq) == seq + 1

\* the common body of DmStats_list and DmStats_populate.  Both return self
\* with a new reference, which the caller releases at once.
ListOrPopulate(call) ==
    \E native_ok \in BOOLEAN, t \in Trees :
        /\ StatsCallable
        /\ Step
        /\ regions' = IF native_ok
                      THEN Relisted(Invalidate(
                               _DmStats_clear_region_cache(regions,
                                                           ob_regions)))
                      ELSE Invalidate(_DmStats_clear_region_cache(regions,
                                                                  ob_regions))
        /\ IF ~native_ok
           THEN \* a failed native call may or may not have dropped the tree
                /\ t \in {tree, EmptyTree}
                /\ tree' = t
                /\ ob_regions' = ob_regions_cleared(ob_regions)
                /\ StatsReturns(call, NoArg, Result("OSError", 0))
                /\ UNCHANGED << ob_dms, ob_refcnt, user_refs, ob_sequence,
                                areas >>
           ELSE /\ ob_sequence' = NextSequence(ob_sequence)
                /\ tree' = t
                /\ ob_regions' = _DmStats_set_region_cache(t)
                /\ StatsReturns(call, NoArg, Result("self", 0))
                /\ UNCHANGED << ob_dms, ob_refcnt, user_refs, areas >>

DmStats_list == ListOrPopulate("DmStats_list")

DmStats_populate == ListOrPopulate("DmStats_populate")

\* the common body of DmStats_bind_name and DmStats_bind_uuid (empty_check)
\* and of DmStats_bind_devno (no check of its arguments)
Bind(call, empty_check) ==
    \E empty \in BOOLEAN, native_ok \in BOOLEAN, cleared \in BOOLEAN :
        /\ StatsCallable
        /\ empty => empty_check
        /\ IF empty
           THEN /\ native_ok /\ ~cleared
                /\ NoStep
                /\ StatsReturns(call, NoArg, Result("ValueError", 0))
                /\ UNCHANGED << ob_dms, ob_refcnt, user_refs, ob_sequence,
                                ob_regions, tree, regions, areas >>
           ELSE IF ~native_ok
           THEN /\ Step
                /\ tree' = IF cleared THEN EmptyTree ELSE tree
                /\ regions' = Invalidate(regions)
                /\ StatsReturns(call, NoArg, Result("OSError", 0))
                /\ UNCHANGED << ob_dms, ob_refcnt, user_refs, ob_sequence,
                                ob_regions, areas >>
           ELSE /\ cleared
                /\ Step
                /\ ob_sequence' = NextSequence(ob_sequence)
                /\ tree' = EmptyTree
                /\ regions' = Invalidate(regions)
                /\ StatsReturns(call, NoArg, Result("True", 0))
                /\ UNCHANGED << ob_dms, ob_refcnt, user_refs, ob_regions,
                                areas >>

DmStats_bind_devno == Bind("DmStats_bind_devno", FALSE)

DmStats_bind_name == Bind("DmStats_bind_name", TRUE)

DmStats_bind_uuid == Bind("DmStats_bind_uuid", TRUE)

\* a check that rejects only a view newer than its DmStats
_DmStatsRegion_sequence_check_older(region_seq, stats_seq) ==
    region_seq <= stats_seq

\* _DmStatsRegion_sequence_check: TRUE when the check passes
_DmStatsRegion_sequence_check(region_seq, stats_seq) == region_seq = stats_seq

\* the caller holds region view v and can use it
RegionCallable(v) == regions[v].state = "live" /\ regions[v].refs > 0

\* a call on a region view that empties the region cache of its DmStats
RegionReturns_uncache(call, v, idx, result) ==
    /\ StatsReturns(call, Arg(v, idx), result)
    /\ NoStep
    /\ ob_regions' = << >>
    /\ UNCHANGED << ob_dms, ob_refcnt, user_refs, ob_sequence, tree, regions,
                    areas >>

\* a call on a region view that changes nothing
RegionReturns(call, v, idx, result) ==
    /\ StatsReturns(call, Arg(v, idx), result)
    /\ NoStep
    /\ UNCHANGED << ob_dms, ob_refcnt, user_refs, ob_sequence, ob_regions,
                    tree, regions, areas >>

\* a region getter: the sequence check, then the native value
RegionGetter(call, v, value) ==
    IF ~_DmStatsRegion_sequence_check(regions[v].ob_sequence, ob_sequence)
    THEN RegionReturns(call, v, 0, Result("LookupError", 0))
    ELSE RegionReturns(call, v, 0, Result("value", value))

DmStatsRegion_nr_areas_getter ==
    \E v \in RegionViewIds :
        /\ RegionCallable(v)
        /\ RegionGetter("DmStatsRegion_nr_areas_getter", v,
               dm_stats_get_region_nr_areas(tree, regions[v].ob_region_id))

DmStatsRegion_present_getter ==
    \E v \in RegionViewIds :
        /\ RegionCallable(v)
        /\ RegionGetter("DmStatsRegion_present_getter", v,
               IF dm_stats_region_present(tree, regions[v].ob_region_id)
               THEN 1 ELSE 0)

\* dm_stats_get_region_precise_timestamps: either answer for a present region
DmStatsRegion_precise_timestamps_getter ==
    \E v \in RegionViewIds, precise \in {0, 1} :
        /\ RegionCallable(v)
        /\ precise = 1 => dm_stats_region_present(tree, regions[v].ob_region_id)
        /\ RegionGetter("DmStatsRegion_precise_timestamps_getter", v, precise)

DmStatsRegion_len ==
    \E v \in RegionViewIds :
        /\ RegionCallable(v)
        /\ RegionReturns("DmStatsRegion_len", v, 0,
               Result("value",
                   dm_stats_get_region_nr_areas(tree, regions[v].ob_region_id)))

\* a hit test that does not look at the referent of the weak reference
AreaCacheHit_unchecked(slot) == slot # 0

AreaCacheHit(slot) == slot # 0 /\ AreaReferent(slot) # 0

DmStatsRegion_get_item ==
    \E v \in RegionViewIds, j \in 0 .. MaxAreas :
        /\ RegionCallable(v)
        /\ IF j < 0 \/ j >= Len(regions[v].ob_areas)
           THEN RegionReturns("DmStatsRegion_get_item", v, j,
                              Result("IndexError", 0))
           ELSE IF ~dm_stats_region_present(tree, regions[v].ob_region_id)
           THEN RegionReturns("DmStatsRegion_get_item", v, j,
                              Result("None", 0))
           ELSE IF AreaCacheHit(regions[v].ob_areas[j + 1])
           THEN \* cache hit
                LET a == regions[v].ob_areas[j + 1]
                IN  /\ Step
                    /\ areas' = [areas EXCEPT ![a].refs = @ + 1]
                    /\ StatsReturns("DmStatsRegion_get_item", Arg(v, j),
                                    Result("area", a))
                    /\ UNCHANGED << ob_dms, ob_refcnt, user_refs, ob_sequence,
                                    ob_regions, tree, regions >>
           ELSE \* cache miss, or cache hit but referent expired
                /\ Step
                /\ LET a == Min(FreeAreaIds)
                   IN  /\ areas' = [areas EXCEPT ![a] =
                              newDmStatsAreaObject(j, regions[v].ob_region_id)]
                       /\ regions' = [regions EXCEPT ![v].ob_areas[j + 1] = a]
                       /\ ob_refcnt' = Py_INCREF_stats(ob_refcnt)
                       /\ StatsReturns("DmStatsRegion_get_item", Arg(v, j),
                                       Result("area", a))
                /\ UNCHANGED << ob_dms, user_refs, ob_sequence, ob_regions,
                                tree >>

\* the caller drops one reference to region view v; the last one runs
\* DmStatsRegion_dealloc: the weak references to v expire and the reference
\* on the parent DmStats is released
DmStatsRegion_decref ==
    \E v \in RegionViewIds :
        /\ RegionCallable(v)
        /\ StatsReturns("DmStatsRegion_decref", Arg(v, 0), Result("None", 0))
        /\ Step
        /\ IF regions[v].refs > 1
           THEN /\ regions' = [regions EXCEPT ![v].refs = @ - 1]
                /\ UNCHANGED << ob_dms, ob_refcnt, ob_sequence, ob_regions,
                                tree >>
           ELSE /\ regions' = [regions EXCEPT ![v] = DeadRegion]
                /\ Py_DECREF_stats
        /\ UNCHANGED << user_refs, areas >>

\* the caller drops one reference to area view a; the last one runs
\* DmStatsArea_dealloc
DmStatsArea_decref ==
    \E a \in AreaViewIds :
        /\ areas[a].state = "live" /\ areas[a].refs > 0
        /\ StatsReturns("DmStatsArea_decref", Arg(a, 0), Result("None", 0))
        /\ Step
        /\ IF areas[a].refs > 1
           THEN /\ areas' = [areas EXCEPT ![a].refs = @ - 1]
                /\ UNCHANGED << ob_dms, ob_refcnt, ob_sequence, ob_regions,
                                tree >>
           ELSE /\ areas' = [areas EXCEPT ![a] = DeadArea]
                /\ Py_DECREF_stats
        /\ UNCHANGED << user_refs, regions >>

\* the caller drops one of its references to the DmStats object
DmStats_decref ==
    /\ user_refs > 0
    /\ user_refs' = user_refs - 1
    /\ Py_DECREF_stats
    /\ StatsReturns("DmStats_decref", NoArg, Result("None", 0))
    /\ Step
    /\ UNCHANGED << regions, areas >>

(***************************************************************************)
(* DmStats construction: DmStats_new, then DmStats_init on the arguments.  *)
(***************************************************************************)
\* major= and minor= are drawn from 0 .. MaxDevno; an omitted one is 0
MaxDevno == 2

\* a char * argument: NULL when omitted, else a string, possibly empty
Strings == {"NULL", "", "dev"}

InitArgs ==
    [name : Strings, uuid : Strings, major : 0 .. MaxDevno,
     minor : 0 .. MaxDevno]

\* the state DmStats_new leaves, with the arguments DmStats_init will get
DmStats_new ==
    /\ ob_dms = "NULL"
    /\ ob_refcnt = 1
    /\ user_refs = 1
    /\ ob_sequence = 0
    /\ ob_regions = << >>
    /\ tree = EmptyTree
    /\ regions = [v \in RegionViewIds |-> FreeRegion]
    /\ areas = [a \in AreaViewIds |-> FreeArea]
    /\ s_call = "DmStats_new"
    /\ s_arg \in InitArgs
    /\ s_result = Result("None", 0)
    /\ ops = 0

\* what DmStats_init raises or returns, and what it leaves in ob_dms:
\* create_ok and bind_ok are the results of dm_stats_create and of the
\* dm_stats_bind_* call; val is 1 when a bind call was made and succeeded.
\* The fail label destroys the handle and leaves the pointer in ob_dms.
DmStats_init_result(a, create_ok, bind_ok) ==
    IF a.name # "NULL" /\ (a.uuid # "NULL" \/ a.major # 0 \/ a.minor # 0)
    THEN [type |-> "TypeError", val |-> 0, dms |-> "NULL"]
    ELSE IF a.uuid # "NULL" /\ (a.major # 0 \/ a.minor # 0)
    THEN [type |-> "TypeError", val |-> 0, dms |-> "NULL"]
    ELSE IF ~create_ok
    THEN [type |-> "MemoryError", val |-> 0, dms |-> "NULL"]
    ELSE IF a.name # "NULL" \/ a.uuid # "NULL"
    THEN IF bind_ok THEN [type |-> "None", val |-> 1, dms |-> "alive"]
         ELSE [type |-> "OSError", val |-> 0, dms |-> "destroyed"]
    ELSE IF a.major # 0
    THEN IF a.minor = 0
         THEN [type |-> "ValueError", val |-> 0, dms |-> "destroyed"]
         ELSE IF bind_ok THEN [type |-> "None", val |-> 1, dms |-> "alive"]
         ELSE [type |-> "OSError", val |-> 0, dms |-> "destroyed"]
    ELSE IF a.minor # 0
    THEN [type |-> "ValueError", val |-> 0, dms |-> "destroyed"]
    ELSE [type |-> "None", val |-> 0, dms |-> "alive"]

DmStats_tp_init ==
    \E create_ok \in BOOLEAN, bind_ok \in BOOLEAN :
        LET r == DmStats_init_result(s_arg, create_ok, bind_ok)
        IN  /\ s_call = "DmStats_new"
            /\ s_call' = "DmStats_init"
            /\ s_result' = Result(r.type, r.val)
            /\ ob_dms' = r.dms
            /\ UNCHANGED << ob_refcnt, user_refs, ob_sequence, ob_regions,
                            tree, regions, areas, s_arg, ops >>
            /\ UNCHANGED << tvars, cvars, rvars, wvars >>

\* the object is released after DmStats_init: by the interpreter when
\* DmStats_init failed, by the caller otherwise.  DmStats_dealloc destroys
\* whatever ob_dms points to; s_result'.val is the number of times
\* dm_stats_destroy has then been applied to the handle.
DmStats_tp_dealloc ==
    /\ s_call = "DmStats_init"
    /\ s_call' = "DmStats_dealloc"
    /\ s_result' = Result("None", (IF ob_dms = "destroyed" THEN 1 ELSE 0)
                                    + (IF ob_dms # "NULL" THEN 1 ELSE 0))
    /\ ob_refcnt' = 0
    /\ user_refs' = 0
    /\ DmStats_dealloc
    /\ UNCHANGED << regions, areas, s_arg, ops >>
    /\ UNCHANGED << tvars, cvars, rvars, wvars >>

(***************************************************************************)
(* The linked records of a name list and of a target version list: each    *)
(* record holds the offset from itself to the next one, 0 in the last.     *)
(***************************************************************************)
\* the do / while of _DmTask_build_name_list: names is at offset off, next
\* is the offset read from it (0 before the first record)
RECURSIVE NameListLoop(_, _, _, _)
NameListLoop(buf, off, next, name_list) ==
    LET names == off + next
        appended == Append(name_list, buf[names].name)
    IN  IF buf[names].next # 0
        THEN NameListLoop(buf, names, buf[names].next, appended)
        ELSE appended

\* _DmTask_build_name_list, as the set of its possible outcomes.  With a
\* NULL name the fail label runs Py_DECREF(name_list) on the NULL name_list:
\* undefined behaviour, a crash or whatever the build makes of it.
_DmTask_build_name_list(buf, null_name) ==
    IF null_name
    THEN {[type |-> "crash", entries |-> << >>],
          [type |-> "OSError", entries |-> << >>]}
    ELSE {[type |-> "value", entries |-> NameListLoop(buf, 0, 0, << >>)]}

\* PyDict_SetItem(versions_dict, name, value): value is the offset of the
\* record here
PyDict_SetItem(dict, name, value) ==
    [n \in DOMAIN dict \cup {name} |-> IF n = name THEN value ELSE dict[n]]

\* the do / while of _DmTask_build_versions_dict
RECURSIVE VersionsLoop(_, _, _)
VersionsLoop(buf, target, versions_dict) ==
    LET last_target == target
        dict == PyDict_SetItem(versions_dict, buf[target].name, target)
        next_target == target + buf[target].next
    IN  IF last_target # next_target
        THEN VersionsLoop(buf, next_target, dict)
        ELSE dict

_DmTask_build_versions_dict(buf, null_name) ==
    IF null_name
    THEN {[type |-> "OSError", entries |-> << >>]}
    ELSE {[type |-> "value", entries |-> VersionsLoop(buf, 0, << >>)]}

WalkReturns(call, out) ==
    /\ w_call' = call
    /\ w_out' = out
    /\ UNCHANGED << w_buf, w_null >>
    /\ UNCHANGED << tvars, svars, cvars, rvars >>

DmTask_build_name_list ==
    \E out \in _DmTask_build_name_list(w_buf, w_null) :
        WalkReturns("_DmTask_build_name_list", out)

DmTask_build_versions_dict ==
    \E out \in _DmTask_build_versions_dict(w_buf, w_null) :
        WalkReturns("_DmTask_build_versions_dict", out)

(***************************************************************************)
(* Specifications: one for a DmTask, one for a DmStats and its views, one  *)
(* for the construction of a DmStats.                                      *)
(***************************************************************************)
NextTask ==
    \/ DmTask_run
    \/ DmTask_set_name
    \/ DmTask_set_uuid
    \/ DmTask_set_record_timestamp
    \/ DmTask_get_driver_version
    \/ DmTask_get_info
    \/ DmTask_get_uuid
    \/ DmTask_get_deps
    \/ DmTask_get_versions
    \/ DmTask_get_message_response
    \/ DmTask_get_name
    \/ DmTask_get_names
    \/ DmTask_get_ioctl_timestamp
    \/ DmTask_get_errno

NextStats ==
    \/ DmStats_get_item
    \/ DmStats_len
    \/ DmStats_list
    \/ DmStats_populate
    \/ DmStats_bind_devno
    \/ DmStats_bind_name
    \/ DmStats_bind_uuid
    \/ DmStatsRegion_nr_areas_getter
    \/ DmStatsRegion_present_getter
    \/ DmStatsRegion_precise_timestamps_getter
    \/ DmStatsRegion_len
    \/ DmStatsRegion_get_item
    \/ DmStatsRegion_decref
    \/ DmStatsArea_decref
    \/ DmStats_decref

SpecTask == InitTask /\ [][NextTask]_vars

SpecStats == InitStats /\ [][NextStats]_vars

\* the methods of a DmStats object alone, with the views it hands out and
\* the references the caller drops
NextHandle ==
    \/ DmStats_get_item
    \/ DmStats_len
    \/ DmStats_list
    \/ DmStats_populate
    \/ DmStats_bind_devno
    \/ DmStats_bind_name
    \/ DmStats_bind_uuid
    \/ DmStats_nr_regions
    \/ DmStats_nr_areas
    \/ DmStats_region_present
    \/ DmStats_region_nr_areas
    \/ DmStats_set_sampling_interval
    \/ DmStats_get_sampling_interval
    \/ DmStats_set_program_id
    \/ DmStatsRegion_decref
    \/ DmStats_decref

SpecHandle == InitStats /\ [][NextHandle]_vars

\* a DmStats after construction and one successful list(), whatever tree the
\* listing found; ops counts the steps taken from here
InitListed ==
    /\ DmTask_init
    /\ ob_task_type = DM_DEVICE_INFO
    /\ DmCookie_init
    /\ ob_cookie = << 0, 0 >>
    /\ DmTask_init_cookie
    /\ NoWalk
    /\ ob_dms = "alive"
    /\ ob_refcnt = 1
    /\ user_refs = 1
    /\ ob_sequence = 1
    /\ tree \in Trees
    /\ ob_regions = _DmStats_set_region_cache(tree)
    /\ regions = [v \in RegionViewIds |-> FreeRegion]
    /\ areas = [a \in AreaViewIds |-> FreeArea]
    /\ s_call = "DmStats_list"
    /\ s_arg = NoArg
    /\ s_result = Result("self", 0)
    /\ ops = 0

\* indexing and dropping views, with no call that changes the tree
NextViews ==
    \/ DmStats_get_item
    \/ DmStatsRegion_len
    \/ DmStatsRegion_get_item
    \/ DmStatsRegion_decref
    \/ DmStatsArea_decref

SpecViews == InitListed /\ [][NextViews]_vars

InitNew ==
    /\ DmTask_init
    /\ ob_task_type = DM_DEVICE_INFO
    /\ DmStats_new
    /\ DmCookie_init
    /\ ob_cookie = << 0, 0 >>
    /\ DmTask_init_cookie
    /\ NoWalk

NextNew ==
    \/ DmStats_tp_init
    \/ DmStats_tp_dealloc

SpecNew == InitNew /\ [][NextNew]_vars

InitCookie ==
    /\ DmTask_init
    /\ ob_task_type = DM_DEVICE_INFO
    /\ DmStats_init
    /\ DmCookie_init
    /\ DmTask_init_cookie
    /\ NoWalk

NextCookie ==
    \/ DmCookie_set_value
    \/ DmCookie_set_prefix
    \/ DmCookie_set_base
    \/ DmCookie_udev_complete
    \/ _DmCookie_udev_wait

SpecCookie == InitCookie /\ [][NextCookie]_vars

InitTaskCookie ==
    /\ DmTask_init
    /\ ob_task_type = DM_DEVICE_INFO
    /\ DmStats_init
    /\ DmCookie_init
    /\ ob_cookie = << 0, 0 >>
    /\ DmTask_init_cookie
    /\ NoWalk

NextTaskCookie ==
    \/ DmTask_set_cookie
    \/ DmTask_dealloc

SpecTaskCookie == InitTaskCookie /\ [][NextTaskCookie]_vars

\* a buffer of the native layer, and the two decoders applied to it
InitWalk ==
    /\ DmTask_init
    /\ ob_task_type = DM_DEVICE_LIST
    /\ DmStats_init
    /\ DmCookie_init
    /\ ob_cookie = << 0, 0 >>
    /\ DmTask_init_cookie
    /\ w_buf \in Buffers
    /\ w_null \in BOOLEAN
    /\ w_call = "init"
    /\ w_out = NoOut

NextWalk ==
    \/ DmTask_build_name_list
    \/ DmTask_build_versions_dict

SpecWalk == InitWalk /\ [][NextWalk]_vars

(***************************************************************************)
(* Properties of a DmTask (SpecTask)                                       *)
(***************************************************************************)
DidRun == DMT_DID_IOCTL \subseteq ob_flags

GateFailed == t_result \in GatingErrors

C8_GateCategoryPresent ==
    t_run_ok =>
        \A c \in DOMAIN CategoryAccessor :
            (t_call = CategoryAccessor[c] /\ c \in TaskTypeFlags(ob_task_type))
                => ~GateFailed

C8_Witness ==
    /\ t_run_last = "ok"
    /\ ob_task_type = DM_DEVICE_LIST
    /\ t_call = "get_names"
    /\ t_result = R_VALUE

\* C9 as stated: once the did-error bit is set, no data flag is set in that
\* or any later state.
C9_Claim ==
    DMT_DID_ERROR \subseteq ob_flags => ob_flags \cap DataFlags = {}

(***************************************************************************)
(* Properties of a DmStats and its views (SpecStats)                       *)
(***************************************************************************)
RegionAccessors ==
    {"DmStatsRegion_nr_areas_getter", "DmStatsRegion_present_getter",
     "DmStatsRegion_precise_timestamps_getter", "DmStatsRegion_len",
     "DmStatsRegion_get_item"}

\* C1 as stated: every accessor of a Region View created before a list,
\* populate or bind_* call on its DmStats fails with a lookup error after
\* that call.
C1_Claim ==
    (s_call \in RegionAccessors /\ regions[s_arg.obj].invalidated)
        => s_result.type = "LookupError"

\* C2: indexing a DmStats by a region identifier for which a view is still
\* referenced, with no list / populate / bind call since that view was
\* returned, returns that same view.
C2_CacheIdentity ==
    [][\A i \in RegionIds, w \in RegionViewIds :
           (/\ regions[w].state = "live"
            /\ regions[w].refs > 0
            /\ regions[w].ob_region_id = i
            /\ ~regions[w].invalidated
            /\ s_call' = "DmStats_get_item"
            /\ s_arg' = Arg(0, i))
           => s_result' = Result("region", w)]_vars

C2_Witness ==
    /\ s_call = "DmStats_get_item"
    /\ s_result.type = "region"
    /\ regions[s_result.val].refs = 2
    /\ ~regions[s_result.val].invalidated

\* C3: the native handle of a DmStats is not destroyed while the caller or
\* any Region View or Area View still holds a reference.
C3_HandleOutlivesViews ==
    (user_refs > 0 \/ LiveRegions # {} \/ LiveAreas # {}) => ob_dms = "alive"

C3_Witness ==
    /\ user_refs = 0
    /\ LiveRegions = {}
    /\ LiveAreas # {}
    /\ ob_dms = "alive"

\* C10 as stated: for each region identifier there is at most one live
\* Region View.
C10_Claim ==
    \A v, w \in LiveRegions :
        regions[v].ob_region_id = regions[w].ob_region_id => v = w

\* C10, amended: for each region identifier and sequence number there is at
\* most one live Region View; views made stale by list / populate may stay
\* alive beside a newer view for the same identifier.
C10_OneViewPerSequence ==
    \A v, w \in LiveRegions :
        (/\ regions[v].ob_region_id = regions[w].ob_region_id
         /\ regions[v].ob_sequence = regions[w].ob_sequence) => v = w

C10_Witness ==
    \E v, w \in LiveRegions :
        /\ v # w
        /\ regions[v].ob_region_id = regions[w].ob_region_id
        /\ regions[w].ob_sequence = ob_sequence

\* C11: the cache keeps no Region View alive: a view is live only while the
\* caller references it; indexing never returns a view that was collected;
\* and indexing a slot whose referent was collected constructs a new view,
\* held once by the caller, with the slot referring to it.
C11_CacheCollects ==
    /\ [](\A v \in LiveRegions : regions[v].refs > 0)
    /\ [][\A i \in RegionIds :
             (/\ s_call' = "DmStats_get_item"
              /\ s_arg' = Arg(0, i)
              /\ s_result'.type = "region")
             => /\ regions[s_result'.val].state # "dead"
                /\ (/\ i < Len(ob_regions)
                    /\ ob_regions[i + 1] # 0
                    /\ regions[ob_regions[i + 1]].state = "dead")
                   => /\ regions[s_result'.val].state = "free"
                      /\ regions'[s_result'.val].state = "live"
                      /\ regions'[s_result'.val].refs = 1
                      /\ ob_regions'[i + 1] = s_result'.val]_vars

\* a view was collected and the same cache, built by the only list so far,
\* has handed out a new one
C11_Witness ==
    /\ s_call = "DmStats_get_item"
    /\ s_result.type = "region"
    /\ ob_sequence = 1
    /\ \E v \in RegionViewIds : regions[v].state = "dead"
    /\ regions[s_result.val].refs = 1
    /\ ob_regions[s_arg.idx + 1] = s_result.val

RestructuringCalls ==
    {"DmStats_list", "DmStats_populate", "DmStats_bind_devno",
     "DmStats_bind_name", "DmStats_bind_uuid"}

\* C12 as stated: a list / populate / bind_* call that discards or rebuilds
\* the tree or the region cache leaves the sequence number strictly greater
\* than it was, whether or not the native call succeeds.
C12_Claim ==
    [][(/\ s_call' \in RestructuringCalls
        /\ (tree' # tree \/ ob_regions' # ob_regions))
       => ob_sequence' > ob_sequence]_vars

\* C13 as stated: once list / populate has succeeded after a Region View was
\* returned, indexing its region again while it is still referenced returns
\* a different view, and every accessor of the first view fails with a
\* lookup error.
C13_Claim ==
    /\ [][\A v \in RegionViewIds :
             (/\ RegionCallable(v)
              /\ regions[v].relisted
              /\ s_call' = "DmStats_get_item"
              /\ s_arg' = Arg(0, regions[v].ob_region_id)
              /\ s_result'.type = "region")
             => s_result'.val # v]_vars
    /\ []((/\ s_call \in RegionAccessors
           /\ regions[s_arg.obj].relisted)
          => s_result.type = "LookupError")

\* C14: indexing a DmStats with i < 0 or i >= the cache length raises
\* IndexError, and only then; with i inside the cache and region i absent
\* from the native tree it returns None; neither creates a view, fills a
\* cache slot or takes a reference.
C14_IndexBounds ==
    [][s_call' = "DmStats_get_item" =>
          LET i == s_arg'.idx
              inside == 0 <= i /\ i < Len(ob_regions)
          IN  /\ s_result'.type = "IndexError" <=> ~inside
              /\ (inside /\ tree[i] = 0) => s_result' = Result("None", 0)
              /\ s_result'.type \in {"IndexError", "None"}
                     => UNCHANGED << regions, ob_regions, ob_refcnt, ob_sequence,
                                    tree, areas >>]_vars

C14_Witness ==
    /\ s_call = "DmStats_get_item"
    /\ s_result.type = "None"
    /\ 0 <= s_arg.idx
    /\ s_arg.idx < Len(ob_regions)
    /\ ob_regions[s_arg.idx + 1] = 0

BindCalls == {"DmStats_bind_devno", "DmStats_bind_name", "DmStats_bind_uuid"}

\* C15 as stated: a bind_* call that succeeds empties the region cache and
\* increments the sequence number; one that fails (empty identity, native
\* rejection) changes neither.
C15_Claim ==
    [][s_call' \in BindCalls =>
          IF s_result'.type = "True"
          THEN ob_regions' = << >> /\ ob_sequence' = ob_sequence + 1
          ELSE ob_regions' = ob_regions /\ ob_sequence' = ob_sequence]_vars

ListCalls == {"DmStats_list", "DmStats_populate"}

\* C16: a list / populate whose native call fails raises OSError and leaves
\* the region cache empty and the handle alive; with an empty cache every
\* indexed access raises IndexError; and a later list / populate that
\* succeeds rebuilds the cache from the new tree.
C16_FailedList ==
    /\ [][s_call' \in ListCalls =>
             /\ s_result'.type \in {"OSError", "self"}
             /\ ob_dms' = "alive"
             /\ s_result'.type = "OSError" => ob_regions' = << >>
             /\ s_result'.type = "self"
                    => ob_regions' = _DmStats_set_region_cache(tree')]_vars
    /\ []((s_call = "DmStats_get_item" /\ ob_regions = << >>)
             => s_result.type = "IndexError")

\* a list / populate has failed on a DmStats whose cache had handed out a view
C16_Witness ==
    /\ s_call \in ListCalls
    /\ s_result.type = "OSError"
    /\ ob_regions = << >>
    /\ LiveRegions # {}

(***************************************************************************)
(* Properties of the construction of a DmStats (SpecNew)                   *)
(***************************************************************************)
\* the identity selectors supplied: name, uuid, and (major, minor), which
\* counts as supplied when either number is not 0
Selectors(a) ==
    (IF a.name # "NULL" THEN 1 ELSE 0) + (IF a.uuid # "NULL" THEN 1 ELSE 0)
        + (IF a.major # 0 \/ a.minor # 0 THEN 1 ELSE 0)

\* C17 as stated: construction fails with a TypeError or ValueError when no
\* selector or more than one is supplied (unless the handle could not even
\* be allocated), and succeeds only when exactly one is supplied and the
\* native bind succeeds.
C17_Claim ==
    s_call = "DmStats_init" =>
        /\ Selectors(s_arg) # 1
              => s_result.type \in {"TypeError", "ValueError", "MemoryError"}
        /\ s_result.type = "None" => Selectors(s_arg) = 1 /\ s_result.val = 1

(***************************************************************************)
(* Properties of a DmCookie (SpecCookie)                                   *)
(***************************************************************************)
\* C18: a cookie that is ready stays ready under every operation, and every
\* udev_wait on it, blocking or immediate, raises ValueError without a
\* native call and leaves the cookie as it was.
C18_NoWaitAfterReady ==
    /\ [][ob_ready => ob_ready']_vars
    /\ [][(ob_ready /\ c_call' = "DmCookie_udev_wait")
            => /\ c_result' = "ValueError"
               /\ ~c_native'.called
               /\ UNCHANGED << ob_cookie, ob_val_prefix, ob_val_base,
                               ob_ready >>]_vars

C18_Witness ==
    /\ ob_ready
    /\ c_call = "DmCookie_udev_wait"
    /\ c_result = "ValueError"

C20_Claim ==
    /\ [][r_call' = "DmTask_set_cookie" =>
             IF r_result' = R_TRUE
             THEN /\ task_ob_cookie' = r_arg'
                  /\ ck_refcnt'[r_arg'] = 1 + 1
             ELSE /\ task_ob_cookie' # r_arg'
                  /\ ck_refcnt' = ck_refcnt]_vars
    /\ [](~task_alive => \A c \in CookieIds : ck_refcnt[c] = 1)

CookieFields == << ob_cookie, ob_val_prefix, ob_val_base, ob_ready >>

\* C21 as stated: set_value(v) with 0 <= v <= 2^32 - 1 stores v, recomputes
\* the prefix and the base from it and returns True.
C21_Claim ==
    (c_call = "DmCookie_set_value" /\ c_arg >= 0) =>
        /\ c_result = R_TRUE
        /\ ob_cookie = << 0, c_arg >>
        /\ ob_val_prefix = 0
        /\ ob_val_base = c_arg

\* C22 as stated: the value, prefix and base of a DmCookie, as its members
\* give them, satisfy value = prefix * 2^16 + base with prefix and base in
\* 0 .. 0xFFFF; set_prefix changes the prefix only and set_base the base
\* only.
C22_Claim ==
    /\ [](/\ 0 <= T_SHORT(ob_val_prefix)
          /\ 0 <= T_SHORT(ob_val_base)
          /\ ob_cookie = << T_SHORT(ob_val_prefix), T_SHORT(ob_val_base) >>)
    /\ [][(c_call' = "DmCookie_set_prefix" => ob_val_base' = ob_val_base)
           /\ (c_call' = "DmCookie_set_base"
                  => ob_val_prefix' = ob_val_prefix)]_vars

\* C23: set_prefix or set_base with an argument below 0 or above 0xFFFF
\* raises ValueError and leaves the value, prefix, base and readiness of
\* the cookie as they were.
C23_SubFieldRange ==
    [][(/\ c_call' \in {"DmCookie_set_prefix", "DmCookie_set_base"}
        /\ (c_arg' < 0 \/ c_arg' > 65535))
       => /\ c_result' = "ValueError"
          /\ UNCHANGED CookieFields]_vars

\* a negative prefix was refused on a cookie whose value is not 0
C23_Witness ==
    /\ c_call = "DmCookie_set_prefix"
    /\ c_arg < 0
    /\ c_result = "ValueError"
    /\ ob_cookie # << 0, 0 >>

\* C24: udev_complete, on a cookie ready or not, never raises: it calls the
\* native layer, returns True or False as that call reported, and leaves
\* the value, prefix, base and readiness of the cookie as they were.
C24_Complete ==
    [][c_call' = "DmCookie_udev_complete"
       => /\ c_native'.called
          /\ c_result' = (IF c_native'.r THEN R_TRUE ELSE "False")
          /\ UNCHANGED CookieFields]_vars

\* complete() reported a native failure on a cookie that is ready
C24_Witness ==
    /\ c_call = "DmCookie_udev_complete"
    /\ ob_ready
    /\ c_result = "False"

C26_Claim ==
    t_call \in AllAccessors =>
        t_result \in GatingErrors \cup {R_VALUE, E_OSERROR}

\* C29: every run() leaves the did-run flag set; a run() whose native call
\* fails raises OSError, adds the did-error flag and no data flag; a run()
\* whose native call succeeds adds the did-run flag and the table entry of
\* the operation kind given at construction, and nothing else.
C29_RunTransition ==
    [][t_call' = "run" =>
         /\ DMT_DID_IOCTL \subseteq ob_flags'
         /\ t_result' \in {R_NONE, E_OSERROR}
         /\ t_result' = E_OSERROR =>
                /\ t_run_last' = "fail"
                /\ ob_flags' = (ob_flags \cup DMT_DID_IOCTL) \cup DMT_DID_ERROR
                /\ ob_flags' \cap DataFlags = ob_flags \cap DataFlags
         /\ t_result' = R_NONE =>
                /\ t_run_last' = "ok"
                /\ ob_flags' = (ob_flags \cup DMT_DID_IOCTL)
                                  \cup _DmTask_task_type_flags[ob_task_type + 1]]_vars

\* the first run() of a task has failed
C29_Witness ==
    /\ t_call = "run"
    /\ t_result = E_OSERROR
    /\ ~t_run_ok
    /\ ob_flags = DMT_DID_IOCTL \cup DMT_DID_ERROR

\* C30: no step of a DmTask clears a flag that is set, so the flags never go
\* back to the empty set of a new task, and no step changes the operation
\* kind.
C30_FlagsMonotone ==
    [][/\ ob_flags \subseteq ob_flags'
       /\ ob_task_type' = ob_task_type]_vars

\* a run() has succeeded after one that failed, and both have left their
\* flags
C30_Witness ==
    /\ t_run_last = "ok"
    /\ t_run_failed
    /\ DMT_DID_ERROR \subseteq ob_flags
    /\ ob_flags \cap DataFlags # {}

\* C27 as stated (DmStats construction): a TypeError or ValueError of
\* DmStats_init is raised before any native call and leaves the object as
\* DmStats_new made it, with no native handle.
C27_Claim ==
    (s_call = "DmStats_init" /\ s_result.type \in {"TypeError", "ValueError"})
        => ob_dms = "NULL"

ViewDestructors == {"DmStatsRegion_decref", "DmStatsArea_decref"}

ViewCalls == RegionAccessors \cup ViewDestructors

\* C28 as stated: no call on a Region View or an Area View, the destruction
\* of the view included, changes the sequence number, the length of the
\* region cache or the native tree of the owning DmStats.
C28_Claim ==
    [][s_call' \in ViewCalls =>
         /\ ob_sequence' = ob_sequence
         /\ Len(ob_regions') = Len(ob_regions)
         /\ tree' = tree]_vars

\* C28, amended: a call on a view leaves the sequence number, the length of
\* the region cache, the native tree and the handle of the owning DmStats as
\* they were, unless it is the destruction of a view that holds the last
\* reference to a DmStats the caller has dropped: that deallocates the
\* DmStats and destroys its handle.
C28_ViewsReadOnly ==
    [][s_call' \in ViewCalls =>
         IF ob_refcnt' > 0
         THEN /\ ob_sequence' = ob_sequence
              /\ Len(ob_regions') = Len(ob_regions)
              /\ tree' = tree
              /\ ob_dms' = ob_dms
         ELSE /\ s_call' \in ViewDestructors
              /\ user_refs = 0
              /\ ob_refcnt = 1
              /\ ob_dms' = "destroyed"]_vars

\* indexing a region view has made an area view of a DmStats that has a
\* region cache and has been listed
C28_Witness ==
    /\ s_call = "DmStatsRegion_get_item"
    /\ s_result.type = "area"
    /\ Len(ob_regions) > 0
    /\ ob_sequence > 0
    /\ ob_dms = "alive"

QueryCalls ==
    {"DmStats_get_item", "DmStats_len", "DmStats_nr_regions",
     "DmStats_nr_areas", "DmStats_region_present", "DmStats_region_nr_areas",
     "DmStats_set_sampling_interval", "DmStats_get_sampling_interval",
     "DmStats_set_program_id"}

\* C32: the sequence number of a DmStats is 0 after construction and, for as
\* long as the object is alive, never decreases; a step changes it only when
\* it is a bind_devno, bind_name, bind_uuid, list or populate call that
\* succeeds, and then by exactly one; indexing, len(), the count and presence
\* queries, the sampling-interval calls and set_program_id leave it as it
\* was.
C32_SequenceMonotone ==
    /\ ob_sequence = 0 \/ s_call # "init"
    /\ [][ob_refcnt' > 0 =>
             /\ ob_sequence' >= ob_sequence
             /\ (s_call' \in RestructuringCalls
                    /\ s_result'.type \in {"self", "True"})
                   => ob_sequence' = ob_sequence + 1
             /\ ob_sequence' # ob_sequence
                   => /\ s_call' \in RestructuringCalls
                      /\ s_result'.type \in {"self", "True"}
             /\ s_call' \in QueryCalls => ob_sequence' = ob_sequence]_vars

\* set_program_id has succeeded on a DmStats that a bind and a listing have
\* brought to sequence number 2
C32_Witness ==
    /\ s_call = "DmStats_set_program_id"
    /\ s_result.type = "True"
    /\ ob_sequence = 2
    /\ Len(ob_regions) > 0

RegionGetters ==
    {"DmStatsRegion_nr_areas_getter", "DmStatsRegion_present_getter",
     "DmStatsRegion_precise_timestamps_getter"}

\* C33: the present, nr_areas and precise_timestamps getters of a Region
\* View raise LookupError, with no value read from the native layer, exactly
\* when the sequence number stored in the view differs from that of its
\* DmStats; with equal numbers they return the native value.
C33_SequenceCheckFirst ==
    s_call \in RegionGetters =>
        /\ s_result.type \in {"LookupError", "value"}
        /\ s_result.type = "LookupError"
              <=> regions[s_arg.obj].ob_sequence # ob_sequence
        /\ s_result.type = "LookupError" => s_result.val = 0

\* nr_areas was refused on a view that a later listing has made stale, its
\* region still being in the tree
C33_Witness ==
    /\ s_call = "DmStatsRegion_nr_areas_getter"
    /\ s_result.type = "LookupError"
    /\ regions[s_arg.obj].ob_sequence < ob_sequence
    /\ tree[regions[s_arg.obj].ob_region_id] > 0

\* C34 as stated: while the tree of a DmStats does not change, there is at
\* most one live Area View for each region identifier and area identifier,
\* also when the Region View that handed out the first one has been dropped
\* and the region indexed again.
C34_Claim ==
    \A a \in LiveAreas, b \in LiveAreas :
        (/\ areas[a].region = areas[b].region
         /\ areas[a].ob_area_id = areas[b].ob_area_id) => a = b

\* C35: a Region View that indexing a DmStats returns, from the cache or
\* newly made, carries the sequence number the DmStats has at that moment,
\* whatever bind, list and populate calls (successful or not), indexing and
\* reference drops came before.
C35_FreshViews ==
    (s_call = "DmStats_get_item" /\ s_result.type = "region") =>
        /\ regions[s_result.val].state = "live"
        /\ regions[s_result.val].ob_sequence = ob_sequence
        /\ regions[s_result.val].ob_region_id = s_arg.idx

\* indexing has returned a view while an older view of the same region,
\* stale since a later listing, is still alive
C35_Witness ==
    /\ s_call = "DmStats_get_item"
    /\ s_result.type = "region"
    /\ \E v \in LiveRegions :
           /\ v # s_result.val
           /\ regions[v].ob_region_id = s_arg.idx
           /\ regions[v].ob_sequence < ob_sequence

\* C36 as stated: a DmStats never keeps a pointer to a destroyed handle
\* after its constructor has returned, failed or not, and by the time the
\* object is gone dm_stats_destroy has been applied to its handle at most
\* once.
C36_Claim ==
    /\ s_call = "DmStats_init" => ob_dms # "destroyed"
    /\ s_call = "DmStats_dealloc" => s_result.val <= 1

\* C37 as stated: once the DmTask is destroyed, after any sequence of
\* set_cookie calls, every cookie has the reference count it had before the
\* task first referred to it (the caller's one reference): none leaked,
\* none released twice.
C37_Claim ==
    ~task_alive => \A c \in CookieIds : ck_refcnt[c] = 1

\* C38: an indexed access to a DmStats or to a Region View ends in exactly
\* one of: IndexError; None; a view that was alive in the slot, returned
\* with one more reference and the slot as it was; or a new view, made
\* because the slot was empty or its weak reference had expired (the one
\* retry), whose weak reference the slot holds afterwards.
C38_LookupOutcomes ==
    /\ [][s_call' = "DmStats_get_item" =>
             LET k == s_arg'.idx + 1
                 v == s_result'.val
             IN  \/ /\ s_result'.type \in {"IndexError", "None"}
                    /\ UNCHANGED << ob_regions, regions >>
                 \/ /\ s_result'.type = "region"
                    /\ regions[v].state = "live"
                    /\ ob_regions[k] = v
                    /\ regions'[v].state = "live"
                    /\ regions'[v].refs = regions[v].refs + 1
                    /\ ob_regions' = ob_regions
                 \/ /\ s_result'.type = "region"
                    /\ regions[v].state # "live"
                    /\ ob_regions[k] = 0 \/ regions[ob_regions[k]].state # "live"
                    /\ regions'[v].state = "live"
                    /\ regions'[v].refs = 1
                    /\ ob_regions'[k] = v]_vars
    /\ [][s_call' = "DmStatsRegion_get_item" =>
             LET r == s_arg'.obj
                 k == s_arg'.idx + 1
                 a == s_result'.val
             IN  \/ /\ s_result'.type \in {"IndexError", "None"}
                    /\ UNCHANGED << regions, areas >>
                 \/ /\ s_result'.type = "area"
                    /\ areas[a].state = "live"
                    /\ regions[r].ob_areas[k] = a
                    /\ areas'[a].state = "live"
                    /\ areas'[a].refs = areas[a].refs + 1
                    /\ regions' = regions
                 \/ /\ s_result'.type = "area"
                    /\ areas[a].state # "live"
                    /\ regions[r].ob_areas[k] = 0
                          \/ areas[regions[r].ob_areas[k]].state # "live"
                    /\ areas'[a].state = "live"
                    /\ areas'[a].refs = 1
                    /\ regions'[r].ob_areas[k] = a]_vars

\* indexing has just made a view for a slot whose earlier view is dead: the
\* weak reference in the slot had expired
C38_Witness ==
    /\ s_call = "DmStats_get_item"
    /\ s_result.type = "region"
    /\ regions[s_result.val].refs = 1
    /\ ob_regions[s_arg.idx + 1] = s_result.val
    /\ ob_sequence = 1
    /\ \E d \in RegionViewIds : regions[d].state = "dead"

\* the offsets of the records a walk from offset o visits, in order
RECURSIVE Chain(_, _)
Chain(buf, o) ==
    IF buf[o].next = 0 THEN << o >>
    ELSE << o >> \o Chain(buf, o + buf[o].next)

====
